---- MODULE Spec2Model ----
(***************************************************************************)
(* Model of the Remote 3 -> Loxone driver (src/src/ucremote3loxone).       *)
(*                                                                         *)
(* Strings are sequences of tokens.  A token is a run of characters of one *)
(* class: the blank " ", the slash "/", the colon ":", or a word.  Words   *)
(* made of letters, digits, "+", "-", "." are scheme words (urlsplit's     *)
(* scheme_chars); "virtual_input" holds an underscore and is not.  The     *)
(* alphabet has no ".", "..", "?" or "#" token, so urljoin's dot-segment,  *)
(* query and fragment handling is not exercised.                           *)
(***************************************************************************)
EXTENDS Integers, Sequences, FiniteSets, TLC

(***************************************************************************)
(* Bounds of the model.                                                    *)
(***************************************************************************)
\* number of register_button calls a run makes
MaxRegisters == 2
\* number of discover_miniserver_functions calls a run makes
MaxDiscovers == 2

(***************************************************************************)
(* String primitives (Python str methods on token sequences).              *)
(***************************************************************************)
Whitespace == {" "}

FirstNotIn(s, S) ==
    IF \A i \in 1..Len(s) : s[i] \in S
    THEN Len(s) + 1
    ELSE CHOOSE i \in 1..Len(s) : s[i] \notin S /\ \A j \in 1..(i - 1) : s[j] \in S

LastNotIn(s, S) ==
    IF \A i \in 1..Len(s) : s[i] \in S
    THEN 0
    ELSE CHOOSE i \in 1..Len(s) : s[i] \notin S /\ \A j \in (i + 1)..Len(s) : s[j] \in S

\* str.lstrip(chars)
lstrip(s, S) == SubSeq(s, FirstNotIn(s, S), Len(s))

\* str.strip()
strip(s) == SubSeq(s, FirstNotIn(s, Whitespace), LastNotIn(s, Whitespace))

\* str.lower(), token by token
LowerToken(c) ==
    CASE c = "SINGLE_PRESS" -> "single_press"
      [] c = "Long_Press" -> "long_press"
      [] c = "TRIPLE_PRESS" -> "triple_press"
      [] c = "A" -> "a"
      [] c = "B" -> "b"
      [] c = "K" -> "k"
      [] c = "Z" -> "z"
      [] OTHER -> c

lower(s) == [i \in 1..Len(s) |-> LowerToken(s[i])]

\* str.startswith(prefix)
startswith(s, prefix) ==
    Len(s) >= Len(prefix) /\ SubSeq(s, 1, Len(prefix)) = prefix

\* str.endswith(suffix)
endswith(s, suffix) ==
    Len(s) >= Len(suffix) /\ SubSeq(s, Len(s) - Len(suffix) + 1, Len(s)) = suffix

IndexOf(s, sep) ==
    IF \E i \in 1..Len(s) : s[i] = sep
    THEN CHOOSE i \in 1..Len(s) : s[i] = sep /\ \A j \in 1..(i - 1) : s[j] # sep
    ELSE 0

\* str.split(sep, maxsplit): a sequence of strings; i is the place of the
\* first separator
RECURSIVE split(_, _, _)
SplitAt(s, sep, maxsplit, i) ==
    IF maxsplit = 0 \/ i = 0
    THEN <<s>>
    ELSE <<SubSeq(s, 1, i - 1)>> \o split(SubSeq(s, i + 1, Len(s)), sep, maxsplit - 1)

split(s, sep, maxsplit) == SplitAt(s, sep, maxsplit, IndexOf(s, sep))

\* sep.join(parts)
RECURSIVE join(_, _)
join(sep, parts) ==
    IF Len(parts) = 0 THEN <<>>
    ELSE IF Len(parts) = 1 THEN parts[1]
    ELSE parts[1] \o <<sep>> \o join(sep, Tail(parts))

IsEmptyStr(s) == s = <<>>

(***************************************************************************)
(* exceptions.py: the two exception classes; an error value names the      *)
(* raise site and its class.                                               *)
(***************************************************************************)
NoError == [cls |-> "none", site |-> "none"]
DriverError(site) == [cls |-> "DriverError", site |-> site]
ConfigurationError(site) == [cls |-> "ConfigurationError", site |-> site]

\* isinstance(err, DriverError): ConfigurationError subclasses DriverError
IsDriverError(err) == err.cls \in {"DriverError", "ConfigurationError"}
IsConfigurationError(err) == err.cls = "ConfigurationError"

(***************************************************************************)
(* config.py                                                               *)
(***************************************************************************)
\* class ButtonAction: the values of the enumeration
ButtonAction == {<<"single_press">>, <<"double_press">>, <<"long_press">>}

\* from_value without the closed-set check
from_value_AcceptAll(value) == [err |-> NoError, action |-> value]

\* ButtonAction.from_value: the member, or ConfigurationError
from_value(value) ==
    IF value \in ButtonAction
    THEN [err |-> NoError, action |-> value]
    ELSE [err |-> ConfigurationError("unsupported_action"), action |-> value]

\* ButtonMapping without the checks of __post_init__
ButtonMapping_Unchecked(oid, button, action, commands) ==
    [err |-> NoError,
     obj |-> [oid |-> oid, button |-> button, action |-> action,
              commands |-> commands]]

\* ButtonMapping(button, action, commands) with __post_init__; oid is the
\* identity of the constructed object (register_button compares with "is")
ButtonMapping(oid, button, action, commands) ==
    IF IsEmptyStr(button)
    THEN [err |-> ConfigurationError("button_required")]
    ELSE IF commands = <<>>
    THEN [err |-> ConfigurationError("commands_required")]
    ELSE [err |-> NoError,
          obj |-> [oid |-> oid, button |-> button, action |-> action,
                   commands |-> commands]]

\* DriverConfig.__post_init__
DriverConfigCheck(miniserver_url, username, password, remote_name) ==
    IF IsEmptyStr(miniserver_url) THEN ConfigurationError("miniserver_url_required")
    ELSE IF IsEmptyStr(username) THEN ConfigurationError("username_required")
    ELSE IF IsEmptyStr(password) THEN ConfigurationError("password_required")
    ELSE IF IsEmptyStr(remote_name) THEN ConfigurationError("remote_name_required")
    ELSE NoError

\* resolve without the final raise: an empty result for an unmapped pair
resolve_NoRaise(mappings, button, action) ==
    [err |-> NoError,
     matches |-> SelectSeq(mappings,
                     LAMBDA m : m.button = button /\ m.action = action)]

\* resolve returning at the first match
resolve_FirstOnly(mappings, button, action) ==
    LET matches == SelectSeq(mappings,
                       LAMBDA m : m.button = button /\ m.action = action)
    IN  IF matches # <<>>
        THEN [err |-> NoError, matches |-> <<matches[1]>>]
        ELSE [err |-> ConfigurationError("no_mapping"), matches |-> <<>>]

\* DriverConfig.resolve: the matching entries in table order, or NoMapping
resolve(mappings, button, action) ==
    LET matches == SelectSeq(mappings,
                       LAMBDA m : m.button = button /\ m.action = action)
    IN  IF matches # <<>>
        THEN [err |-> NoError, matches |-> matches]
        ELSE [err |-> ConfigurationError("no_mapping"), matches |-> <<>>]

\* the comprehension of _parse_mapping's list branch: strip each command and
\* drop those empty after stripping
RECURSIVE StripNonEmpty(_)
StripNonEmpty(commands) ==
    IF commands = <<>> THEN <<>>
    ELSE IF strip(Head(commands)) # <<>>
    THEN <<strip(Head(commands))>> \o StripNonEmpty(Tail(commands))
    ELSE StripNonEmpty(Tail(commands))

\* _parse_mapping: data is [button, action, commands], commands being
\* [kind |-> "str" | "list" | "other", val]
_parse_mapping(oid, data) ==
    LET button == strip(data.button)
        action_value == lower(strip(data.action))
        command_values == IF data.commands.kind = "str"
                          THEN <<data.commands.val>>
                          ELSE StripNonEmpty(data.commands.val)
        action == from_value(action_value)
    IN  IF data.commands.kind \notin {"str", "list"}
        THEN [err |-> ConfigurationError("commands_type")]
        ELSE IF action.err # NoError
        THEN [err |-> action.err]
        ELSE ButtonMapping(oid, button, action.action, command_values)

\* DriverConfig.from_dict: parse the items in order, the first failure raises;
\* then construct the DriverConfig
RECURSIVE ParseMappings(_, _)
ParseMappings(raw_mappings, k) ==
    IF k > Len(raw_mappings) THEN [err |-> NoError, mappings |-> <<>>]
    ELSE LET one == _parse_mapping(k, raw_mappings[k])
         IN  IF one.err # NoError THEN [err |-> one.err, mappings |-> <<>>]
             ELSE LET rest == ParseMappings(raw_mappings, k + 1)
                  IN  IF rest.err # NoError THEN rest
                      ELSE [err |-> NoError, mappings |-> <<one.obj>> \o rest.mappings]

from_dict(data) ==
    LET parsed == ParseMappings(data.mappings, 1)
        check == DriverConfigCheck(strip(data.miniserver_url), strip(data.username),
                                   strip(data.password), strip(data.remote_name))
    IN  IF parsed.err # NoError THEN [err |-> parsed.err]
        ELSE IF check # NoError THEN [err |-> check]
        ELSE [err |-> NoError,
              config |-> [miniserver_url |-> strip(data.miniserver_url),
                          username |-> strip(data.username),
                          password |-> strip(data.password),
                          remote_name |-> strip(data.remote_name),
                          mappings |-> parsed.mappings]]

(***************************************************************************)
(* client.py                                                               *)
(***************************************************************************)
\* urllib.parse scheme_chars, uses_relative, uses_netloc on the alphabet
SchemeWords == {"http", "https", "x", "on", "off", "dev", "sps", "io", "uuid",
                "other", "toggle", "loxone.local", "evil.example",
                "fsget", "current", "data", "LoxAPP3.json"}
UsesRelative == {<<>>, <<"http">>, <<"https">>}
UsesNetloc == {<<>>, <<"http">>, <<"https">>}

\* urllib.parse.urlsplit(url, scheme): [scheme, netloc, path].  The url is
\* stripped of leading blanks; a scheme is a leading run of scheme
\* characters before the first colon; a netloc follows a leading "//".
NetlocAt(scheme, after, k) ==
    [scheme |-> scheme,
     netloc |-> IF k = 0 THEN after ELSE SubSeq(after, 1, k - 1),
     path |-> IF k = 0 THEN <<>> ELSE SubSeq(after, k, Len(after))]

SplitNetloc(scheme, rest) ==
    IF startswith(rest, <<"/", "/">>)
    THEN NetlocAt(scheme, SubSeq(rest, 3, Len(rest)),
                  IndexOf(SubSeq(rest, 3, Len(rest)), "/"))
    ELSE [scheme |-> scheme, netloc |-> <<>>, path |-> rest]

SplitScheme(u, i, default) ==
    IF i > 1 /\ \A j \in 1..(i - 1) : u[j] \in SchemeWords
    THEN SplitNetloc(lower(SubSeq(u, 1, i - 1)), SubSeq(u, i + 1, Len(u)))
    ELSE SplitNetloc(default, u)

SplitStripped(u, default) == SplitScheme(u, IndexOf(u, ":"), default)

urlsplit(url, default) == SplitStripped(lstrip(url, Whitespace), default)

\* urllib.parse.urlunsplit for a URL without query and fragment
urlunsplit(scheme, netloc, path) ==
    (IF scheme # <<>> THEN scheme \o <<":">> ELSE <<>>)
    \o (IF netloc # <<>> \/ (scheme # <<>> /\ scheme \in UsesNetloc
                             /\ ~startswith(path, <<"/", "/">>))
        THEN <<"/", "/">> \o netloc
             \o (IF path # <<>> /\ path[1] # "/" THEN <<"/">> ELSE <<>>)
        ELSE <<>>)
    \o path

\* urljoin: base_parts, the segments of the base path without its last,
\* non-empty one
BaseParts(parts) ==
    IF parts[Len(parts)] # <<>> THEN SubSeq(parts, 1, Len(parts) - 1) ELSE parts

\* urljoin: segments[1:-1] = filter(None, segments[1:-1])
FilterMiddle(segments) ==
    IF Len(segments) < 2 THEN segments
    ELSE <<segments[1]>>
         \o SelectSeq(SubSeq(segments, 2, Len(segments) - 1), LAMBDA seg : seg # <<>>)
         \o <<segments[Len(segments)]>>

\* urljoin: the joined path, '/'.join(resolved_path) or '/'
OrSlash(path) == IF path = <<>> THEN <<"/">> ELSE path

ResolvedPath(bpath, path) ==
    IF startswith(path, <<"/">>)
    THEN OrSlash(join("/", split(path, "/", Len(path))))
    ELSE OrSlash(join("/", FilterMiddle(BaseParts(split(bpath, "/", Len(bpath)))
                                        \o split(path, "/", Len(path)))))

\* urljoin with both URLs split: b the base, r the reference
JoinSplit(url, b, r) ==
    IF r.scheme # b.scheme \/ r.scheme \notin UsesRelative THEN url
    ELSE IF r.scheme \in UsesNetloc /\ r.netloc # <<>>
    THEN urlunsplit(r.scheme, r.netloc, r.path)
    ELSE IF r.path = <<>> THEN urlunsplit(r.scheme, b.netloc, b.path)
    ELSE urlunsplit(r.scheme, b.netloc, ResolvedPath(b.path, r.path))

JoinBase(url, b) == JoinSplit(url, b, urlsplit(url, b.scheme))

\* urllib.parse.urljoin(base, url)
urljoin(base, url) ==
    IF base = <<>> THEN url
    ELSE IF url = <<>> THEN base
    ELSE JoinBase(url, urlsplit(base, <<>>))

\* LoxoneClient.__init__: the default timeout
DefaultTimeout == 5

\* LoxoneClient.__init__
LoxoneClient(base_url, username, password) ==
    IF IsEmptyStr(base_url)
    THEN [err |-> DriverError("base_url_required")]
    ELSE [err |-> NoError,
          obj |-> [base_url |-> IF endswith(base_url, <<"/">>) THEN base_url
                                ELSE base_url \o <<"/">>,
                   auth |-> <<username, password>>,
                   timeout |-> DefaultTimeout]]

\* The transport (_SessionLike.get, _DefaultSession.get): the environment
\* answers a GET with a status code, or raises DriverError when the host is
\* unreachable
Statuses == {200, 399, 400, 500}
Responses == {[raised |-> FALSE, status_code |-> s] : s \in Statuses}
             \cup {[raised |-> TRUE, status_code |-> 0]}

\* LoxoneClient.execute_command: [err, calls], calls being the GETs issued
\* the status check written as > 400
Get_Above400(cl, url, resp) ==
    [err |-> IF resp.raised THEN DriverError("unreachable")
             ELSE IF resp.status_code > 400 THEN DriverError("status")
             ELSE NoError,
     calls |-> <<[url |-> url, auth |-> cl.auth, timeout |-> cl.timeout,
                  response |-> resp]>>]

\* session.get and the status check of execute_command
Get(cl, url, resp) ==
    [err |-> IF resp.raised THEN DriverError("unreachable")
             ELSE IF resp.status_code >= 400 THEN DriverError("status")
             ELSE NoError,
     calls |-> <<[url |-> url, auth |-> cl.auth, timeout |-> cl.timeout,
                  response |-> resp]>>]

execute_command(cl, command, resp) ==
    IF IsEmptyStr(command)
    THEN [err |-> DriverError("empty_command"), calls |-> <<>>]
    ELSE Get(cl, urljoin(cl.base_url, lstrip(command, {"/"})), resp)

\* the path send_virtual_input composes: dev/sps/io/{control_uuid}/{value}
VirtualInputPath(control_uuid, value) ==
    <<"dev", "/", "sps", "/", "io", "/">> \o control_uuid \o <<"/">> \o value

\* LoxoneClient.send_virtual_input
send_virtual_input(cl, control_uuid, value, resp) ==
    IF IsEmptyStr(control_uuid)
    THEN [err |-> DriverError("empty_control_uuid"), calls |-> <<>>]
    ELSE IF IsEmptyStr(value)
    THEN [err |-> DriverError("empty_value"), calls |-> <<>>]
    ELSE execute_command(cl, VirtualInputPath(control_uuid, value), resp)

(***************************************************************************)
(* driver.py: command dispatch                                             *)
(***************************************************************************)
VirtualInputPrefix == <<"virtual_input", ":">>

\* Remote3LoxoneDriver._handle_virtual_input
\* parts is command.split(":", 2); unpacking it into three names raises
\* ValueError unless it has three items
UnpackVirtualInput(cl, parts, resp) ==
    IF Len(parts) # 3
    THEN [err |-> ConfigurationError("virtual_input_format"), calls |-> <<>>]
    ELSE send_virtual_input(cl, parts[2], parts[3], resp)

\* _handle_virtual_input splitting at every colon
_handle_virtual_input_SplitAll(cl, command, resp) ==
    UnpackVirtualInput(cl, split(command, ":", Len(command)), resp)

_handle_virtual_input(cl, command, resp) ==
    UnpackVirtualInput(cl, split(command, ":", 2), resp)

\* the loop body without the virtual_input branch
DispatchStripped_RawOnly(cl, command, resp) ==
    IF IsEmptyStr(command) THEN [err |-> NoError, calls |-> <<>>]
    ELSE execute_command(cl, command, resp)

\* the body of the loop of Remote3LoxoneDriver._dispatch_commands, command
\* being the stripped command
DispatchStripped(cl, command, resp) ==
    IF IsEmptyStr(command) THEN [err |-> NoError, calls |-> <<>>]
    ELSE IF startswith(command, VirtualInputPrefix)
    THEN _handle_virtual_input(cl, command, resp)
    ELSE execute_command(cl, command, resp)

DispatchOne(cl, raw_command, resp) == DispatchStripped(cl, strip(raw_command), resp)

(***************************************************************************)
(* Values of the structure document.  A JSON object is kept as the         *)
(* sequence of its [key, val] items in document order (the iteration order *)
(* of a Python dict); a table is [kind, items] with kind "dict", "list" or *)
(* "absent"; a field a JSON object does not have reads as None, as         *)
(* dict.get reports it.                                                    *)
(***************************************************************************)
None == <<"None:missing">>

\* truth value of "v or ...": None and the empty string are false
Truthy(v) == v # None /\ v # <<>>

\* str(v)
str(v) == IF v = None THEN <<"None">> ELSE v

\* code points of the characters of names; a longer token orders by its
\* first character
Ord(c) ==
    CASE c = " " -> 32
      [] c = "0" -> 48 [] c = "1" -> 49 [] c = "2" -> 50 [] c = "3" -> 51
      [] c = "A" -> 65 [] c = "B" -> 66 [] c = "K" -> 75 [] c = "Z" -> 90
      [] c = "a" -> 97 [] c = "b" -> 98 [] c = "control_" -> 99
      [] c = "k" -> 107 [] c = "u" -> 117 [] c = "z" -> 122
      [] OTHER -> 0

\* a < b for Python str: lexicographic by code point
StrLess(a, b) ==
    \/ Len(a) < Len(b) /\ SubSeq(b, 1, Len(a)) = a
    \/ \E i \in 1..Len(a) :
          /\ i <= Len(b)
          /\ SubSeq(a, 1, i - 1) = SubSeq(b, 1, i - 1)
          /\ Ord(a[i]) < Ord(b[i])

\* dict[key] = val: the value of an existing key is replaced in place, a new
\* key is added at the end
RECURSIVE DictSet(_, _, _)
DictSet(dict, key, val) ==
    IF dict = <<>> THEN <<[key |-> key, val |-> val]>>
    ELSE IF Head(dict).key = key THEN <<[key |-> key, val |-> val]>> \o Tail(dict)
    ELSE <<Head(dict)>> \o DictSet(Tail(dict), key, val)

\* dict.get(key, default)
RECURSIVE DictGet(_, _, _)
DictGet(dict, key, default) ==
    IF dict = <<>> THEN default
    ELSE IF Head(dict).key = key THEN Head(dict).val
    ELSE DictGet(Tail(dict), key, default)

DictKeys(dict) == {dict[k].key : k \in 1..Len(dict)}

(***************************************************************************)
(* driver.py: discovery                                                    *)
(***************************************************************************)
\* _extract_controls, list form: {item.get("uuid", f"control_{index}"): item}
\* built item by item, index counting from 0
RECURSIVE ControlsOfList(_, _)
ControlsOfList(items, n) ==
    IF n = 0 THEN <<>>
    ELSE DictSet(ControlsOfList(items, n - 1),
                 IF items[n].val.uuid = None THEN <<"control_", ToString(n - 1)>>
                 ELSE items[n].val.uuid,
                 items[n].val)

\* _extract_controls
_extract_controls(structure) ==
    IF structure.controls.kind = "dict" THEN structure.controls.items
    ELSE IF structure.controls.kind = "list"
    THEN ControlsOfList(structure.controls.items, Len(structure.controls.items))
    ELSE <<>>

\* _map_entities: the name of every entity that is an object with a name
\* (and, in list form, with a uuid), by uuid
RECURSIVE EntitiesOfDict(_, _)
EntitiesOfDict(items, n) ==
    IF n = 0 THEN <<>>
    ELSE IF items[n].val.isdict /\ Truthy(items[n].val.name)
    THEN DictSet(EntitiesOfDict(items, n - 1), str(items[n].key), str(items[n].val.name))
    ELSE EntitiesOfDict(items, n - 1)

RECURSIVE EntitiesOfList(_, _)
EntitiesOfList(items, n) ==
    IF n = 0 THEN <<>>
    ELSE IF items[n].val.isdict /\ Truthy(items[n].val.uuid) /\ Truthy(items[n].val.name)
    THEN DictSet(EntitiesOfList(items, n - 1), str(items[n].val.uuid),
                 str(items[n].val.name))
    ELSE EntitiesOfList(items, n - 1)

_map_entities(table) ==
    IF table.kind = "dict" THEN EntitiesOfDict(table.items, Len(table.items))
    ELSE IF table.kind = "list" THEN EntitiesOfList(table.items, Len(table.items))
    ELSE <<>>

\* _controls_for_remote: [filter, allowed]; filter FALSE is the None result.
\* The first remote that is an object, has the name and has a list or an
\* object as its controls decides.
RECURSIVE AllowedFrom(_, _)
AllowedFrom(items, remote_name) ==
    IF items = <<>> THEN [filter |-> FALSE, allowed |-> {}]
    ELSE IF ~Head(items).val.isdict \/ str(Head(items).val.name) # remote_name
    THEN AllowedFrom(Tail(items), remote_name)
    ELSE IF Head(items).val.controls.kind \in {"list", "dict"}
    THEN [filter |-> TRUE,
          allowed |-> {str(Head(items).val.controls.items[k].key) :
                          k \in 1..Len(Head(items).val.controls.items)}]
    ELSE AllowedFrom(Tail(items), remote_name)

_controls_for_remote(structure, remote_name) ==
    IF structure.remotes.kind \in {"dict", "list"}
    THEN AllowedFrom(structure.remotes.items, remote_name)
    ELSE [filter |-> FALSE, allowed |-> {}]

\* "a or b": the first operand if it is true, else the second
Or(a, b) == IF Truthy(a) THEN a ELSE b

\* lines 150-167: the LoxoneFunction of a control
LoxoneFunction_NameOnly(uuid, control, rooms, categories) ==
    [name |-> str(control.name),
     uuid |-> str(Or(control.uuidAction, Or(control.uuid, Or(control.uuidCmd, uuid)))),
     type |-> str(Or(control.type, <<>>)),
     room |-> DictGet(rooms, control.room, None),
     category |-> DictGet(categories, control.category, None)]

LoxoneFunction(uuid, control, rooms, categories) ==
    [name |-> str(Or(control.name, uuid)),
     uuid |-> str(Or(control.uuidAction, Or(control.uuid, Or(control.uuidCmd, uuid)))),
     type |-> str(Or(control.type, <<>>)),
     room |-> DictGet(rooms, control.room, None),
     category |-> DictGet(categories, control.category, None)]

\* lines 145-168: the functions of the controls that pass the allow-list, in
\* the iteration order of the controls
RECURSIVE CollectFunctions(_, _, _, _)
CollectFunctions(controls, allowed_controls, rooms, categories) ==
    IF controls = <<>> THEN <<>>
    ELSE (IF allowed_controls.filter /\ Head(controls).key \notin allowed_controls.allowed
          THEN <<>>
          ELSE <<LoxoneFunction(Head(controls).key, Head(controls).val,
                                rooms, categories)>>)
         \o CollectFunctions(Tail(controls), allowed_controls, rooms, categories)

\* line 170: the sort key (fn.room or "", fn.name.lower()) and its order
SortKey(fn) == <<Or(fn.room, <<>>), lower(fn.name)>>

KeyLess(a, b) ==
    \/ StrLess(a[1], b[1])
    \/ a[1] = b[1] /\ StrLess(a[2], b[2])

\* fn put before the first function of a sorted sequence whose key is greater
RECURSIVE InsertSorted(_, _)
InsertSorted(sorted, fn) ==
    IF sorted = <<>> THEN <<fn>>
    ELSE IF KeyLess(SortKey(fn), SortKey(Head(sorted))) THEN <<fn>> \o sorted
    ELSE <<Head(sorted)>> \o InsertSorted(Tail(sorted), fn)

\* list.sort(key=...) left as the list was
sort_Unsorted(functions, n) == SubSeq(functions, 1, n)

\* list.sort(key=...): stable, ascending, of the first n functions
RECURSIVE sort(_, _)
sort(functions, n) ==
    IF n = 0 THEN <<>>
    ELSE InsertSorted(sort(functions, n - 1), functions[n])

\* lines 135-171 with the allow-list left out
Functions_NoFilter(structure, remote_name) ==
    sort(CollectFunctions(_extract_controls(structure),
                          [filter |-> FALSE, allowed |-> {}],
                          _map_entities(structure.rooms),
                          _map_entities(structure.categories)),
         Len(_extract_controls(structure)))

\* lines 135-171: the result of discovery for a structure document
Functions(structure, remote_name) ==
    IF _extract_controls(structure) = <<>> THEN <<>>
    ELSE sort(CollectFunctions(_extract_controls(structure),
                               _controls_for_remote(structure, remote_name),
                               _map_entities(structure.rooms),
                               _map_entities(structure.categories)),
              Len(CollectFunctions(_extract_controls(structure),
                                   _controls_for_remote(structure, remote_name),
                                   _map_entities(structure.rooms),
                                   _map_entities(structure.categories))))

(***************************************************************************)
(* client.py: fetch_structure.  The body of a response is its text and     *)
(* what json.loads makes of that text: a document, or kind "invalid" when  *)
(* the text is not JSON.                                                   *)
(***************************************************************************)
Absent == [kind |-> "absent", items |-> <<>>]

NoStructure ==
    [kind |-> "invalid", controls |-> Absent, rooms |-> Absent,
     categories |-> Absent, remotes |-> Absent]

\* fetch_structure: the default of its path argument
DefaultStructurePath == <<"data", "/", "LoxAPP3.json">>

\* lines 108-120 skipping the check for an empty body
ParseBody_NoEmptyCheck(got) ==
    IF got.err # NoError
    THEN [err |-> got.err, calls |-> got.calls, structure |-> NoStructure]
    ELSE IF got.calls[1].response.body.json.kind = "invalid"
    THEN [err |-> DriverError("structure_json"), calls |-> got.calls,
          structure |-> NoStructure]
    ELSE [err |-> NoError, calls |-> got.calls,
          structure |-> got.calls[1].response.body.json]

\* lines 103-120: got is the outcome of the GET and of the status check
ParseBody(got) ==
    IF got.err # NoError
    THEN [err |-> got.err, calls |-> got.calls, structure |-> NoStructure]
    ELSE IF strip(got.calls[1].response.body.text) = <<>>
    THEN [err |-> DriverError("structure_empty"), calls |-> got.calls,
          structure |-> NoStructure]
    ELSE IF got.calls[1].response.body.json.kind = "invalid"
    THEN [err |-> DriverError("structure_json"), calls |-> got.calls,
          structure |-> NoStructure]
    ELSE [err |-> NoError, calls |-> got.calls,
          structure |-> got.calls[1].response.body.json]

\* LoxoneClient.fetch_structure: [err, calls, structure]
fetch_structure(cl, path, resp) ==
    IF IsEmptyStr(path)
    THEN [err |-> DriverError("structure_path"), calls |-> <<>>,
          structure |-> NoStructure]
    ELSE ParseBody(Get(cl, urljoin(cl.base_url, lstrip(path, {"/"})), resp))

\* lines 135-171: structure.get on a document that is not a JSON object
\* raises AttributeError
DiscoverFetched(f, remote_name) ==
    IF f.err # NoError
    THEN [err |-> f.err, calls |-> f.calls, result |-> <<>>]
    ELSE IF f.structure.kind # "object"
    THEN [err |-> [cls |-> "AttributeError", site |-> "structure.get"],
          calls |-> f.calls, result |-> <<>>]
    ELSE [err |-> NoError, calls |-> f.calls,
          result |-> Functions(f.structure, remote_name)]

\* Remote3LoxoneDriver.discover_miniserver_functions: [err, calls, result]
discover_miniserver_functions(cl, cfg, structure_path, resp) ==
    DiscoverFetched(fetch_structure(cl, structure_path, resp), cfg.remote_name)

(***************************************************************************)
(* Inputs: the command strings, configuration documents and call arguments *)
(* the model draws from.                                                   *)
(***************************************************************************)
CmdOn == <<"dev", "/", "sps", "/", "io", "/", "uuid", "/", "on">>
CmdOff == <<"dev", "/", "sps", "/", "io", "/", "uuid", "/", "off">>
CmdPadded == <<" ">> \o CmdOff \o <<" ">>
CmdSlash == <<"/">> \o CmdOn
CmdBlank == <<" ">>
CmdEmpty == <<>>
CmdScheme == <<"x", ":", "on">>
CmdAbsolute == <<"http", ":", "/", "/", "evil.example", "/", "on">>
CmdSlashes == <<"/", "/", "evil.example", "/", "on">>
CmdVI == <<"virtual_input", ":", "other", ":", "toggle">>
CmdVIPadded == <<" ">> \o CmdVI
CmdVITwo == <<"virtual_input", ":", "other">>
CmdVIFour == <<"virtual_input", ":", "other", ":", "on", ":", "x">>
CmdVINoControl == <<"virtual_input", ":", ":", "on">>
CmdVINoValue == <<"virtual_input", ":", "other", ":">>

Top == <<"top">>
Bottom == <<"bottom">>
Left == <<"left">>
SinglePress == <<"single_press">>
DoublePress == <<"double_press">>
LongPress == <<"long_press">>

Url == <<"http", ":", "/", "/", "loxone.local">>

RawItem(button, action, kind, val) ==
    [button |-> button, action |-> action, commands |-> [kind |-> kind, val |-> val]]

RawDoc(url, username, mappings) ==
    [miniserver_url |-> url, username |-> username, password |-> <<"pass">>,
     remote_name |-> <<"Remote 3">>, mappings |-> mappings]

ItemTop == RawItem(Top, SinglePress, "list", <<CmdOn>>)
ItemBottom == RawItem(Bottom, LongPress, "list", <<CmdVI>>)
ItemTopAgain == RawItem(<<" ", "top">>, <<" ", "SINGLE_PRESS", " ">>, "str", CmdPadded)
ItemLeftList == RawItem(Left, <<"Long_Press">>, "list", <<CmdBlank, CmdPadded, CmdEmpty, CmdVIPadded>>)
ItemEmptyString == RawItem(Top, LongPress, "str", CmdEmpty)
ItemMixed == RawItem(Top, SinglePress, "list", <<CmdSlash, CmdVIFour, CmdScheme>>)
ItemMalformed == RawItem(Bottom, LongPress, "list", <<CmdOn, CmdVITwo, CmdOff>>)
ItemNoControl == RawItem(Left, LongPress, "list", <<CmdVINoControl, CmdOn>>)
ItemNoValue == RawItem(Left, SinglePress, "list", <<CmdOn, CmdVINoValue, CmdOff>>)
ItemBadAction == RawItem(Top, <<"TRIPLE_PRESS">>, "str", CmdOn)
ItemNoAction == RawItem(Top, <<>>, "list", <<CmdOn>>)
ItemAllBlank == RawItem(Top, SinglePress, "list", <<CmdBlank, CmdEmpty>>)
ItemNoButton == RawItem(<<" ">>, SinglePress, "list", <<CmdOn>>)
ItemNoCommands == RawItem(Top, SinglePress, "other", <<>>)

RawConfigs ==
    { RawDoc(Url, <<"user">>, <<ItemTop, ItemBottom>>),
      RawDoc(Url \o <<"/">>, <<"user">>, <<ItemTop, ItemBottom, ItemTopAgain>>),
      RawDoc(Url, <<"user">>, <<ItemLeftList, ItemEmptyString>>),
      RawDoc(Url, <<"user">>, <<>>),
      RawDoc(Url, <<"user">>, <<ItemMixed, ItemMalformed, ItemNoControl, ItemNoValue>>),
      RawDoc(Url, <<"user">>, <<ItemTop, ItemBadAction>>),
      RawDoc(Url, <<"user">>, <<ItemNoAction>>),
      RawDoc(Url, <<"user">>, <<ItemTop, ItemAllBlank>>),
      RawDoc(Url, <<"user">>, <<ItemNoButton>>),
      RawDoc(Url, <<"user">>, <<ItemNoCommands, ItemBadAction>>),
      RawDoc(Url, <<" ">>, <<ItemTop>>) }

EventButtons == {Top, Bottom, Left}
EventActions == {SinglePress, LongPress, <<" ", "SINGLE_PRESS", " ">>, <<"TRIPLE_PRESS">>}

RegisterButtons == {Top, Left, <<>>}
RegisterActions == {SinglePress}
RegisterCommands == {<<>>, <<CmdEmpty>>, <<CmdOff>>, <<CmdPadded, CmdBlank, CmdVI>>}

ExecuteCommands == {CmdEmpty, CmdOn, CmdSlash, CmdScheme, CmdAbsolute, CmdSlashes}

(***************************************************************************)
(* Inputs of discovery: structure documents, response bodies, paths.       *)
(***************************************************************************)
DictOf(items) == [kind |-> "dict", items |-> items]
ListOf(vals) == [kind |-> "list",
                 items |-> [k \in 1..Len(vals) |-> [key |-> None, val |-> vals[k]]]]
Item(key, val) == [key |-> key, val |-> val]

Control(name, uuidAction, uuid, uuidCmd, room) ==
    [name |-> name, type |-> <<"Switch">>, uuidAction |-> uuidAction, uuid |-> uuid,
     uuidCmd |-> uuidCmd, room |-> room, category |-> <<"k", "1">>]
Entity(uuid, name) == [isdict |-> TRUE, uuid |-> uuid, name |-> name]
EntityScalar == [isdict |-> FALSE, uuid |-> None, name |-> None]
Remote(name, controls) == [isdict |-> TRUE, name |-> name, controls |-> controls]
RemoteScalar == [isdict |-> FALSE, name |-> None, controls |-> Absent]
Ids(ids) == [k \in 1..Len(ids) |-> [key |-> ids[k], val |-> None]]

U0 == <<"u", "0">>
U1 == <<"u", "1">>
U2 == <<"u", "2">>
U3 == <<"u", "3">>
U4 == <<"u", "4">>
R1 == <<"r", "1">>
R2 == <<"r", "2">>
RemoteName == <<"Remote 3">>

Document(controls, rooms, remotes) ==
    [kind |-> "object", controls |-> controls, rooms |-> rooms,
     categories |-> DictOf(<<Item(<<"k", "1">>, Entity(None, <<"Z">>))>>),
     remotes |-> remotes]

RoomsDict == DictOf(<<Item(R1, Entity(None, <<"K">>)), Item(R2, Entity(None, <<"a">>))>>)
RoomsList == ListOf(<<Entity(R2, <<"a">>), EntityScalar, Entity(R1, <<"K">>),
                      Entity(<<"r", "3">>, None), Entity(None, <<"Z">>)>>)

TwoControls ==
    DictOf(<<Item(U1, Control(<<"B">>, <<"a", "1">>, <<"a", "2">>, <<"a", "3">>, R1)),
             Item(U2, Control(<<"a">>, None, None, <<"a", "3">>, R1))>>)

\* five controls, not in sorted order: one without a room and a name, two
\* whose names differ only in case
FiveControls ==
    DictOf(<<Item(U1, Control(<<"b">>, <<>>, <<"a", "2">>, None, R2)),
             Item(U2, Control(<<"B">>, None, None, None, R1)),
             Item(U3, Control(<<"a">>, <<"a", "1">>, None, None, R1)),
             Item(U0, Control(None, None, None, <<"a", "3">>, None)),
             Item(U4, Control(<<"A">>, None, <<>>, None, R1))>>)

\* list form: the second and third control without a uuid, the fourth with
\* the uuid of the first
ListControls ==
    ListOf(<<Control(<<"Z">>, None, U1, None, R1), Control(<<>>, None, None, None, R2),
             Control(<<"a">>, None, None, <<"a", "3">>, None),
             Control(<<"A">>, <<"a", "1">>, U1, None, R1)>>)

DocFiltered ==
    Document(TwoControls, RoomsDict,
             DictOf(<<Item(<<"x">>, Remote(RemoteName, [kind |-> "list", items |-> Ids(<<U1>>)]))>>))
DocSorted == Document(FiveControls, RoomsList, Absent)
DocList ==
    Document(ListControls, RoomsDict,
             ListOf(<<RemoteScalar,
                      Remote(<<"Other">>, [kind |-> "list", items |-> Ids(<<U1>>)]),
                      Remote(RemoteName, [kind |-> "dict",
                                          items |-> Ids(<<<<"control_", "1">>, U1, U3>>)])>>))
DocNoControlIds ==
    Document(TwoControls, RoomsDict,
             DictOf(<<Item(<<"x">>, Remote(RemoteName, Absent))>>))
DocTwoEntries ==
    Document(FiveControls, RoomsDict,
             ListOf(<<Remote(RemoteName, [kind |-> "list", items |-> Ids(<<U2, U3>>)]),
                      Remote(RemoteName, [kind |-> "list", items |-> Ids(<<U1>>)])>>))
DocNoMatch ==
    Document(TwoControls, Absent,
             ListOf(<<Remote(<<" ", "Remote 3">>, [kind |-> "list", items |-> Ids(<<U1>>)])>>))
DocEmptyAllowList ==
    Document(TwoControls, RoomsDict,
             ListOf(<<Remote(RemoteName, [kind |-> "list", items |-> <<>>])>>))
DocNoControls == Document(Absent, RoomsDict, Absent)
DocArray == [NoStructure EXCEPT !.kind = "array"]

Documents == {DocFiltered, DocSorted, DocList, DocNoControlIds, DocTwoEntries,
              DocNoMatch, DocEmptyAllowList, DocNoControls}

\* bodies: no data, blank, not JSON, JSON that is not an object, documents
Bodies ==
    {[text |-> <<>>, json |-> NoStructure],
     [text |-> <<" ", " ">>, json |-> NoStructure],
     [text |-> <<"<html>">>, json |-> NoStructure],
     [text |-> <<"[]">>, json |-> DocArray]}
    \cup {[text |-> <<"{", "...", "}">>, json |-> doc] : doc \in Documents}

StructureResponses ==
    {[raised |-> FALSE, status_code |-> s, body |-> b] : s \in {200, 400}, b \in Bodies}
    \cup {[raised |-> TRUE, status_code |-> 0, body |-> [text |-> <<>>, json |-> NoStructure]]}

StructurePaths == {DefaultStructurePath, <<"/">> \o DefaultStructurePath, <<>>}

(***************************************************************************)
(* State.                                                                  *)
(***************************************************************************)
VARIABLES
    phase,      \* "load" before load_config, "run" with a driver, "failed"
    raw,        \* the configuration document handed to DriverConfig.from_dict
    lerr,       \* the error load raised
    config,     \* Remote3LoxoneDriver._config
    client,     \* Remote3LoxoneDriver._client
    calls,      \* the GETs the session received for the calls in progress
    nextOid,    \* identity of the next ButtonMapping object constructed
    nreg,       \* number of register_button calls made so far
    h,          \* frame of the handle_event call
    reg,        \* frames of the register_button calls, one per caller
    x,          \* frame of a direct LoxoneClient.execute_command call
    p,          \* frame of the ping call
    d,          \* frame of the discover_miniserver_functions call
    ndisc,      \* number of discover_miniserver_functions calls made so far
    fetched     \* number of GETs the session received from discovery so far

\* the state of discovery
discovery == <<d, ndisc, fetched>>

vars == <<phase, raw, lerr, config, client, calls, nextOid, nreg, h, reg, x,
          p, discovery>>

Regs == {1, 2}

NoConfig == [miniserver_url |-> <<>>, username |-> <<>>, password |-> <<>>,
             remote_name |-> <<>>, mappings |-> <<>>]
NoClient == [base_url |-> <<>>, auth |-> <<<<>>, <<>>>>, timeout |-> 0]
NoMappingObject == [oid |-> 0, button |-> <<>>, action |-> <<>>, commands |-> <<>>]

\* last: the command the dispatch loop handled last (stripped), the error it
\* raised and the number of GETs it issued; pre: the config held when
\* handle_event read self._config
NoLast == [command |-> <<>>, err |-> NoError, issued |-> 0]
HIdle == [pc |-> "idle", button |-> <<>>, action |-> <<>>, mappings |-> <<>>,
          i |-> 0, j |-> 0, err |-> NoError, last |-> NoLast, pre |-> NoConfig]
RIdle == [pc |-> "idle", button |-> <<>>, action |-> <<>>, commands |-> <<>>,
          found |-> FALSE, primary |-> NoMappingObject, new_mappings |-> <<>>,
          err |-> NoError, pre |-> NoConfig, overlapped |-> FALSE]
XIdle == [pc |-> "idle", command |-> <<>>, err |-> NoError]
\* cause: the exception the raised one was raised from (__cause__); pre: the
\* config held when the call was made
PIdle == [pc |-> "idle", err |-> NoError, cause |-> NoError, pre |-> NoConfig]
\* before: the number of structure GETs when the call was made
DIdle == [pc |-> "idle", path |-> <<>>, err |-> NoError, result |-> <<>>,
          before |-> 0, pre |-> NoConfig]

Init ==
    /\ phase = "load"
    /\ raw \in RawConfigs
    /\ lerr = NoError
    /\ config = NoConfig
    /\ client = NoClient
    /\ calls = <<>>
    /\ nextOid = 1
    /\ nreg = 0
    /\ h = HIdle
    /\ reg = [r \in Regs |-> RIdle]
    /\ x = XIdle
    /\ p = PIdle
    /\ d = DIdle
    /\ ndisc = 0
    /\ fetched = 0

\* load_config / DriverConfig.from_dict, then Remote3LoxoneDriver.__init__
LoadConfig ==
    /\ phase = "load"
    /\ LET loaded == from_dict(raw)
       IN  IF loaded.err # NoError
           THEN /\ phase' = "failed"
                /\ lerr' = loaded.err
                /\ UNCHANGED <<config, client, nextOid>>
           ELSE LET cl == LoxoneClient(loaded.config.miniserver_url,
                                       loaded.config.username, loaded.config.password)
                IN  /\ phase' = "run"
                    /\ lerr' = NoError
                    /\ config' = loaded.config
                    /\ client' = cl.obj
                    /\ nextOid' = Len(loaded.config.mappings) + 1
    /\ UNCHANGED <<raw, calls, nreg, h, reg, x, p, discovery>>

(***************************************************************************)
(* Remote3LoxoneDriver.handle_event                                        *)
(***************************************************************************)
\* the next (mapping, command) position of the two nested loops at or after
\* (i, j); i beyond the last mapping when the loops are over
RECURSIVE Seek(_, _, _)
Seek(mappings, i, j) ==
    IF i > Len(mappings) THEN [i |-> i, j |-> 0]
    ELSE IF j <= Len(mappings[i].commands) THEN [i |-> i, j |-> j]
    ELSE Seek(mappings, i + 1, 1)

\* lines 53-56: normalise the action, resolve against the held config
HandleEventCall(button, action) ==
    /\ phase = "run"
    /\ h.pc = "idle"
    /\ LET a == from_value(lower(strip(action)))
           res == resolve(config.mappings, button, a.action)
           pos == Seek(res.matches, 1, 1)
           frame == [HIdle EXCEPT !.button = button, !.action = action,
                                  !.pre = config]
       IN  h' = IF a.err # NoError
                THEN [frame EXCEPT !.pc = "raised", !.err = a.err]
                ELSE IF res.err # NoError
                THEN [frame EXCEPT !.pc = "raised", !.err = res.err]
                ELSE [frame EXCEPT !.pc = IF pos.i > Len(res.matches) THEN "done"
                                          ELSE "dispatch",
                                   !.mappings = res.matches,
                                   !.i = pos.i, !.j = pos.j]
    /\ UNCHANGED <<phase, raw, lerr, config, client, calls, nextOid, nreg,
                   reg, x, p, discovery>>

\* the dispatch loop swallowing the error of a command and going on
DispatchStep_ContinueOnError(resp) ==
    /\ h.pc = "dispatch"
    /\ LET out == DispatchOne(client, h.mappings[h.i].commands[h.j], resp)
           pos == Seek(h.mappings, h.i, h.j + 1)
       IN  /\ calls' = calls \o out.calls
           /\ h' = [h EXCEPT !.pc = IF pos.i > Len(h.mappings) THEN "done"
                                    ELSE "dispatch",
                             !.i = pos.i, !.j = pos.j]
    /\ UNCHANGED <<phase, raw, lerr, config, client, nextOid, nreg, reg, x,
                   p, discovery>>

\* the dispatch loop reading the mappings again from the config held now
DispatchStep_Live(resp) ==
    /\ h.pc = "dispatch"
    /\ LET live == resolve(config.mappings, h.button,
                           from_value(lower(strip(h.action))).action).matches
           out == DispatchOne(client, live[h.i].commands[h.j], resp)
           pos == Seek(live, h.i, h.j + 1)
           last == [command |-> strip(live[h.i].commands[h.j]),
                    err |-> out.err, issued |-> Len(out.calls)]
       IN  /\ calls' = calls \o out.calls
           /\ h' = IF out.err # NoError
                   THEN [h EXCEPT !.pc = "raised", !.err = out.err, !.last = last]
                   ELSE [h EXCEPT !.pc = IF pos.i > Len(live) THEN "done"
                                         ELSE "dispatch",
                                  !.mappings = live,
                                  !.i = pos.i, !.j = pos.j, !.last = last]
    /\ UNCHANGED <<phase, raw, lerr, config, client, nextOid, nreg, reg, x,
                   p, discovery>>

\* lines 57-75: one iteration of _dispatch_commands, the transport answering
\* with resp
DispatchStep(resp) ==
    /\ h.pc = "dispatch"
    /\ LET out == DispatchOne(client, h.mappings[h.i].commands[h.j], resp)
           pos == Seek(h.mappings, h.i, h.j + 1)
           last == [command |-> strip(h.mappings[h.i].commands[h.j]),
                    err |-> out.err, issued |-> Len(out.calls)]
       IN  /\ calls' = calls \o out.calls
           /\ h' = IF out.err # NoError
                   THEN [h EXCEPT !.pc = "raised", !.err = out.err, !.last = last]
                   ELSE [h EXCEPT !.pc = IF pos.i > Len(h.mappings) THEN "done"
                                         ELSE "dispatch",
                                  !.i = pos.i, !.j = pos.j, !.last = last]
    /\ UNCHANGED <<phase, raw, lerr, config, client, nextOid, nreg, reg, x,
                   p, discovery>>

\* handle_event putting back, as it returns, the config it started with
HandleEventReturn_Restoring ==
    /\ h.pc \in {"done", "raised"}
    /\ h' = HIdle
    /\ calls' = <<>>
    /\ config' = h.pre
    /\ UNCHANGED <<phase, raw, lerr, client, nextOid, nreg, reg, x, p, discovery>>

\* the caller receives the result (or the exception) of handle_event
HandleEventReturn ==
    /\ h.pc \in {"done", "raised"}
    /\ h' = HIdle
    /\ calls' = <<>>
    /\ UNCHANGED <<phase, raw, lerr, config, client, nextOid, nreg, reg, x,
                   p, discovery>>

(***************************************************************************)
(* Remote3LoxoneDriver.register_button, in its three accesses to the held  *)
(* config: resolve (line 93), build from self._config.mappings (lines      *)
(* 95-105), construct and assign the new DriverConfig (lines 107-113).     *)
(***************************************************************************)
InProgress(f) == f.pc \in {"resolved", "built"}

\* lines 92-94, 99: existing = self._config.resolve(button, action)
RegisterCall(r, button, action, commands) ==
    /\ phase = "run"
    /\ reg[r].pc = "idle"
    /\ nreg < MaxRegisters
    /\ nreg' = nreg + 1
    /\ LET res == resolve(config.mappings, button, action)
           racing == \E o \in Regs \ {r} : InProgress(reg[o])
       IN  reg' = [o \in Regs |->
                    IF o = r
                    THEN [RIdle EXCEPT !.pc = "resolved", !.button = button,
                                       !.action = action, !.commands = commands,
                                       !.found = (res.err = NoError),
                                       !.primary = IF res.err = NoError
                                                   THEN res.matches[1]
                                                   ELSE NoMappingObject,
                                       !.pre = config,
                                       !.overlapped = racing]
                    ELSE IF InProgress(reg[o])
                    THEN [reg[o] EXCEPT !.overlapped = TRUE]
                    ELSE reg[o]]
    /\ UNCHANGED <<phase, raw, lerr, config, client, calls, nextOid, h, x, p,
                   discovery>>

\* lines 100-105: the comprehension replacing the entry that "is" primary;
\* every replacement constructs a new ButtonMapping object
RECURSIVE ReplacePrimary(_, _, _, _)
ReplacePrimary(mappings, primary, updated_commands, oid) ==
    IF mappings = <<>> THEN <<>>
    ELSE IF Head(mappings).oid # primary.oid
    THEN <<Head(mappings)>>
         \o ReplacePrimary(Tail(mappings), primary, updated_commands, oid)
    ELSE <<ButtonMapping(oid, Head(mappings).button, Head(mappings).action,
                         updated_commands).obj>>
         \o ReplacePrimary(Tail(mappings), primary, updated_commands, oid + 1)

\* register_button appending a new entry whether or not one exists
NewMappings_AlwaysAppend(mappings, f, oid) ==
    LET target == ButtonMapping(oid, f.button, f.action, f.commands)
    IN  IF target.err # NoError
        THEN [err |-> target.err, new_mappings |-> <<>>]
        ELSE [err |-> NoError, new_mappings |-> mappings \o <<target.obj>>]

\* register_button replacing the commands of the entry instead of extending
NewMappings_Overwrite(mappings, f, oid) ==
    IF ~f.found
    THEN LET target == ButtonMapping(oid, f.button, f.action, f.commands)
         IN  IF target.err # NoError
             THEN [err |-> target.err, new_mappings |-> <<>>]
             ELSE [err |-> NoError, new_mappings |-> mappings \o <<target.obj>>]
    ELSE [err |-> NoError,
          new_mappings |-> ReplacePrimary(mappings, f.primary, f.commands, oid)]

\* lines 95-105: new_mappings, or the ConfigurationError of ButtonMapping
NewMappings(mappings, f, oid) ==
    IF ~f.found
    THEN LET target == ButtonMapping(oid, f.button, f.action, f.commands)
         IN  IF target.err # NoError
             THEN [err |-> target.err, new_mappings |-> <<>>]
             ELSE [err |-> NoError, new_mappings |-> mappings \o <<target.obj>>]
    ELSE [err |-> NoError,
          new_mappings |-> ReplacePrimary(mappings, f.primary,
                                          f.primary.commands \o f.commands, oid)]

RegisterBuild(r) ==
    /\ reg[r].pc = "resolved"
    /\ LET built == NewMappings(config.mappings, reg[r], nextOid)
       IN  /\ reg' = [reg EXCEPT ![r] =
                        IF built.err # NoError
                        THEN [@ EXCEPT !.pc = "raised", !.err = built.err]
                        ELSE [@ EXCEPT !.pc = "built",
                                       !.new_mappings = built.new_mappings]]
           /\ nextOid' = IF built.err # NoError THEN nextOid
                         ELSE nextOid + Len(config.mappings) + 1
    /\ UNCHANGED <<phase, raw, lerr, config, client, calls, nreg, h, x, p,
                   discovery>>

\* the new DriverConfig with the mappings put in reverse order
SwapConfig_Reversed(cfg, new_mappings) ==
    [miniserver_url |-> cfg.miniserver_url, username |-> cfg.username,
     password |-> cfg.password, remote_name |-> cfg.remote_name,
     mappings |-> [k \in 1..Len(new_mappings) |->
                      new_mappings[Len(new_mappings) + 1 - k]]]

\* lines 107-113: the new DriverConfig, fields read from self._config
SwapConfig(cfg, new_mappings) ==
    [miniserver_url |-> cfg.miniserver_url, username |-> cfg.username,
     password |-> cfg.password, remote_name |-> cfg.remote_name,
     mappings |-> new_mappings]

RegisterSwap(r) ==
    /\ reg[r].pc = "built"
    /\ config' = SwapConfig(config, reg[r].new_mappings)
    /\ reg' = [reg EXCEPT ![r].pc = "done"]
    /\ UNCHANGED <<phase, raw, lerr, client, calls, nextOid, nreg, h, x, p,
                   discovery>>

\* the caller receives the result (or the exception) of register_button
RegisterReturn(r) ==
    /\ reg[r].pc \in {"done", "raised"}
    /\ reg' = [reg EXCEPT ![r] = RIdle]
    /\ UNCHANGED <<phase, raw, lerr, config, client, calls, nextOid, nreg, h,
                   x, p, discovery>>

(***************************************************************************)
(* LoxoneClient.execute_command called on driver.client                    *)
(***************************************************************************)
ClientExecute(command, resp) ==
    /\ phase = "run"
    /\ x.pc = "idle"
    /\ LET out == execute_command(client, command, resp)
       IN  /\ calls' = calls \o out.calls
           /\ x' = [pc |-> IF out.err # NoError THEN "raised" ELSE "done",
                    command |-> command, err |-> out.err]
    /\ UNCHANGED <<phase, raw, lerr, config, client, nextOid, nreg, h, reg,
                   p, discovery>>

ClientReturn ==
    /\ x.pc \in {"done", "raised"}
    /\ x' = XIdle
    /\ calls' = <<>>
    /\ UNCHANGED <<phase, raw, lerr, config, client, nextOid, nreg, h, reg,
                   p, discovery>>

(***************************************************************************)
(* Remote3LoxoneDriver.ping                                                *)
(***************************************************************************)
\* the diagnostic command of line 119
PingCommand == <<"dev", "/", "fsget", "/", "current", "/">>

\* ping raising the new DriverError without "from exc"
ping_NoCause(cl, resp) ==
    [err |-> IF execute_command(cl, PingCommand, resp).err # NoError
             THEN DriverError("ping") ELSE NoError,
     cause |-> NoError,
     calls |-> execute_command(cl, PingCommand, resp).calls]

\* lines 118-121: a DriverError of execute_command is replaced by a new
\* DriverError raised from it
ping(cl, resp) ==
    [err |-> IF IsDriverError(execute_command(cl, PingCommand, resp).err)
             THEN DriverError("ping")
             ELSE execute_command(cl, PingCommand, resp).err,
     cause |-> IF IsDriverError(execute_command(cl, PingCommand, resp).err)
               THEN execute_command(cl, PingCommand, resp).err
               ELSE NoError,
     calls |-> execute_command(cl, PingCommand, resp).calls]

PingCall(resp) ==
    /\ phase = "run"
    /\ p.pc = "idle"
    /\ calls' = calls \o ping(client, resp).calls
    /\ p' = [pc |-> IF ping(client, resp).err # NoError THEN "raised" ELSE "done",
             err |-> ping(client, resp).err,
             cause |-> ping(client, resp).cause,
             pre |-> config]
    /\ UNCHANGED <<phase, raw, lerr, config, client, nextOid, nreg, h, reg, x,
                   discovery>>

\* the caller receives the result (or the exception) of ping
PingReturn ==
    /\ p.pc \in {"done", "raised"}
    /\ p' = PIdle
    /\ calls' = <<>>
    /\ UNCHANGED <<phase, raw, lerr, config, client, nextOid, nreg, h, reg, x,
                   discovery>>

(***************************************************************************)
(* Remote3LoxoneDriver.discover_miniserver_functions                       *)
(***************************************************************************)
\* discovery answering from the document of an earlier call
DiscoverCall_Cached(structure_path, resp) ==
    /\ phase = "run"
    /\ d.pc = "idle"
    /\ ndisc < MaxDiscovers
    /\ ndisc' = ndisc + 1
    /\ LET out == discover_miniserver_functions(client, config, structure_path, resp)
       IN  /\ calls' = IF ndisc = 0 THEN calls \o out.calls ELSE calls
           /\ fetched' = IF ndisc = 0 THEN fetched + Len(out.calls) ELSE fetched
           /\ d' = [pc |-> IF out.err # NoError THEN "raised" ELSE "done",
                    path |-> structure_path, err |-> out.err, result |-> out.result,
                    before |-> fetched, pre |-> config]
    /\ UNCHANGED <<phase, raw, lerr, config, client, nextOid, nreg, h, reg, x, p>>

\* lines 134-171, the transport answering the GET with resp
DiscoverCall(structure_path, resp) ==
    /\ phase = "run"
    /\ d.pc = "idle"
    /\ ndisc < MaxDiscovers
    /\ ndisc' = ndisc + 1
    /\ LET out == discover_miniserver_functions(client, config, structure_path, resp)
       IN  /\ calls' = calls \o out.calls
           /\ fetched' = fetched + Len(out.calls)
           /\ d' = [pc |-> IF out.err # NoError THEN "raised" ELSE "done",
                    path |-> structure_path, err |-> out.err, result |-> out.result,
                    before |-> fetched, pre |-> config]
    /\ UNCHANGED <<phase, raw, lerr, config, client, nextOid, nreg, h, reg, x, p>>

\* the caller receives the result (or the exception) of discovery
DiscoverReturn ==
    /\ d.pc \in {"done", "raised"}
    /\ d' = DIdle
    /\ calls' = <<>>
    /\ UNCHANGED <<phase, raw, lerr, config, client, nextOid, nreg, h, reg, x, p,
                   ndisc, fetched>>

(***************************************************************************)
(* Specifications.  Spec: the single-threaded call model of the driver,    *)
(* one call at a time.  SpecConcurrent: a host that calls register_button  *)
(* from two threads and handle_event from a third without synchronisation. *)
(***************************************************************************)
AllIdle ==
    /\ h.pc = "idle" /\ x.pc = "idle" /\ p.pc = "idle" /\ d.pc = "idle"
    /\ \A r \in Regs : reg[r].pc = "idle"

Next ==
    \/ LoadConfig
    \/ \E b \in EventButtons, a \in EventActions : AllIdle /\ HandleEventCall(b, a)
    \/ \E resp \in Responses : DispatchStep(resp)
    \/ HandleEventReturn
    \/ \E b \in RegisterButtons, a \in RegisterActions, c \in RegisterCommands :
           AllIdle /\ RegisterCall(1, b, a, c)
    \/ RegisterBuild(1)
    \/ RegisterSwap(1)
    \/ RegisterReturn(1)
    \/ \E c \in ExecuteCommands, resp \in Responses : AllIdle /\ ClientExecute(c, resp)
    \/ ClientReturn
    \/ \E resp \in Responses : AllIdle /\ PingCall(resp)
    \/ PingReturn

Spec == Init /\ [][Next]_vars

ConcurrentButtons == {Top, Left}
ConcurrentCommands == {<<CmdOff>>, <<CmdVI>>}

NextConcurrent ==
    \/ LoadConfig
    \/ \E r \in Regs, b \in ConcurrentButtons, c \in ConcurrentCommands :
           RegisterCall(r, b, SinglePress, c)
    \/ \E r \in Regs : RegisterBuild(r)
    \/ \E r \in Regs : RegisterSwap(r)
    \/ \E r \in Regs : RegisterReturn(r)

SpecConcurrent == Init /\ [][NextConcurrent]_vars

\* SpecDiscover: a host that loads a config and calls discovery
NextDiscover ==
    \/ LoadConfig
    \/ \E path \in StructurePaths, resp \in StructureResponses :
           AllIdle /\ DiscoverCall(path, resp)
    \/ DiscoverReturn

SpecDiscover == Init /\ [][NextDiscover]_vars

\* SpecInterleaved: a host that calls handle_event, ping and discovery from
\* one thread while a second thread calls register_button; a step is one
\* access to self._config or one blocking transport call
CallerIdle == h.pc = "idle" /\ x.pc = "idle" /\ p.pc = "idle" /\ d.pc = "idle"

InterleavedStructureResponses ==
    {resp \in StructureResponses :
        resp.raised \/ resp.body.json \in {NoStructure, DocFiltered}}

NextInterleaved ==
    \/ LoadConfig
    \/ \E b \in ConcurrentButtons : CallerIdle /\ HandleEventCall(b, SinglePress)
    \/ \E resp \in Responses : DispatchStep(resp)
    \/ HandleEventReturn
    \/ \E b \in ConcurrentButtons, c \in ConcurrentCommands :
           RegisterCall(1, b, SinglePress, c)
    \/ RegisterBuild(1)
    \/ RegisterSwap(1)
    \/ RegisterReturn(1)
    \/ \E resp \in Responses : CallerIdle /\ PingCall(resp)
    \/ PingReturn
    \/ \E resp \in InterleavedStructureResponses :
           CallerIdle /\ DiscoverCall(DefaultStructurePath, resp)
    \/ DiscoverReturn

SpecInterleaved == Init /\ [][NextInterleaved]_vars

(***************************************************************************)
(* Vocabulary of the properties.                                           *)
(***************************************************************************)
\* a gesture given as text, trimmed and lower-cased
NormalisedAction(text) == lower(strip(text))

\* the table entries for (button, action), by their places in the table
MatchingPlaces(mappings, button, action) ==
    {k \in 1..Len(mappings) :
        mappings[k].button = button /\ mappings[k].action = action}

\* the n-th smallest element of a set of places
NthPlace(places, n) ==
    CHOOSE k \in places : Cardinality({j \in places : j < k}) = n - 1

\* the commands of the entries for (button, action), entry after entry
RECURSIVE CommandsFor(_, _, _)
CommandsFor(mappings, button, action) ==
    IF mappings = <<>> THEN <<>>
    ELSE (IF Head(mappings).button = button /\ Head(mappings).action = action
          THEN Head(mappings).commands ELSE <<>>)
         \o CommandsFor(Tail(mappings), button, action)

\* the commands trimmed, those empty after trimming dropped
TrimmedNonEmpty(commands) ==
    SelectSeq([k \in 1..Len(commands) |-> strip(commands[k])], LAMBDA c : c # <<>>)

Colons(c) == {k \in 1..Len(c) : c[k] = ":"}
ControlIdOf(c) == SubSeq(c, NthPlace(Colons(c), 1) + 1, NthPlace(Colons(c), 2) - 1)
ValueOf(c) == SubSeq(c, NthPlace(Colons(c), 2) + 1, Len(c))
IsVirtualInput(c) == startswith(c, <<"virtual_input", ":">>)

\* the path a trimmed command stands for: itself, or dev/sps/io/{id}/{value}
PathOf(c) ==
    IF ~IsVirtualInput(c) THEN c
    ELSE IF Cardinality(Colons(c)) < 2 THEN <<>>
    ELSE <<"dev", "/", "sps", "/", "io", "/">> \o ControlIdOf(c) \o <<"/">> \o ValueOf(c)

\* the paths the event of frame h is to request, in order
EventPaths ==
    [k \in 1..Len(TrimmedNonEmpty(CommandsFor(config.mappings, h.button,
                                              NormalisedAction(h.action)))) |->
        PathOf(TrimmedNonEmpty(CommandsFor(config.mappings, h.button,
                                           NormalisedAction(h.action)))[k])]

CallUrls == [k \in 1..Len(calls) |-> calls[k].url]

\* the GET failed: status >= 400, or the host was unreachable
CallFailed(call) == call.response.raised \/ call.response.status_code >= 400

\* the config the driver was constructed with
InitialConfig == from_dict(raw).config

\* the URL of a path below the base URL of the client
UrlBelowBase(path) == urljoin(client.base_url, lstrip(path, {"/"}))

C2_FailFast ==
    h.pc # "idle" =>
        \A k \in 1..Len(calls) :
            CallFailed(calls[k]) =>
                /\ k = Len(calls)
                /\ h.pc = "raised"
                /\ h.err = DriverError(IF calls[k].response.raised THEN "unreachable"
                                       ELSE "status")
                /\ \A n \in 1..(k - 1) : calls[n].url # calls[k].url \/ ~CallFailed(calls[n])

\* the second GET failed with commands of this entry and a later entry left
C2_Witness ==
    /\ h.pc = "raised"
    /\ Len(calls) = 2
    /\ CallFailed(calls[2])
    /\ h.j < Len(h.mappings[h.i].commands)
    /\ h.i < Len(h.mappings)

(***************************************************************************)
(* C3.  handle_event for a pair without an entry in the table raises the   *)
(* NoMapping ConfigurationError and issues no GET, whatever the table.     *)
(***************************************************************************)
C3_NoMapping ==
    (/\ h.pc # "idle"
     /\ NormalisedAction(h.action) \in ButtonAction
     /\ MatchingPlaces(config.mappings, h.button, NormalisedAction(h.action)) = {})
    => /\ h.pc = "raised"
       /\ h.err = ConfigurationError("no_mapping")
       /\ IsConfigurationError(h.err)
       /\ calls = <<>>

\* the pair is unmapped in a table that register calls have changed
C3_Witness ==
    /\ h.pc = "raised"
    /\ h.err = ConfigurationError("no_mapping")
    /\ config.mappings # InitialConfig.mappings
    /\ Len(config.mappings) >= 3

(***************************************************************************)
(* C4.  register_button.  As claimed: with an entry for the pair in the    *)
(* table, the number of entries is unchanged and the first matching entry  *)
(* holds its old commands followed by the new ones; without one, exactly   *)
(* one entry with the given commands is appended; and the commands a later *)
(* event for the pair dispatches are the previously configured ones        *)
(* followed by the newly registered ones.                                  *)
(***************************************************************************)
RegisterEffect(pre, new, f) ==
    IF MatchingPlaces(pre, f.button, f.action) = {}
    THEN /\ Len(new) = Len(pre) + 1
         /\ SubSeq(new, 1, Len(pre)) = pre
         /\ new[Len(new)].button = f.button
         /\ new[Len(new)].action = f.action
         /\ new[Len(new)].commands = f.commands
    ELSE /\ Len(new) = Len(pre)
         /\ new[NthPlace(MatchingPlaces(pre, f.button, f.action), 1)].commands
              = pre[NthPlace(MatchingPlaces(pre, f.button, f.action), 1)].commands
                \o f.commands
         /\ MatchingPlaces(new, f.button, f.action)
              = MatchingPlaces(pre, f.button, f.action)

C4_NewCommandsLast ==
    reg[1].pc = "done" =>
        /\ RegisterEffect(reg[1].pre.mappings, config.mappings, reg[1])
        /\ CommandsFor(config.mappings, reg[1].button, reg[1].action)
             = CommandsFor(reg[1].pre.mappings, reg[1].button, reg[1].action)
               \o reg[1].commands

\* the commands of the entries for the pair after place k
LaterCommands(pre, f, k) ==
    CommandsFor(SubSeq(pre, k + 1, Len(pre)), f.button, f.action)

\* C4 as amended: the commands a later event for the pair dispatches are the
\* first matching entry's old commands, then the newly registered ones, then
\* the commands of the further entries for the pair.
C4_Register ==
    reg[1].pc = "done" =>
        /\ RegisterEffect(reg[1].pre.mappings, config.mappings, reg[1])
        /\ CommandsFor(config.mappings, reg[1].button, reg[1].action)
             = IF MatchingPlaces(reg[1].pre.mappings, reg[1].button, reg[1].action) = {}
               THEN reg[1].commands
               ELSE reg[1].pre.mappings[NthPlace(MatchingPlaces(reg[1].pre.mappings,
                        reg[1].button, reg[1].action), 1)].commands
                    \o reg[1].commands
                    \o LaterCommands(reg[1].pre.mappings, reg[1],
                           NthPlace(MatchingPlaces(reg[1].pre.mappings,
                               reg[1].button, reg[1].action), 1))

\* commands registered for a pair that has two entries
C4_Witness ==
    /\ reg[1].pc = "done"
    /\ Cardinality(MatchingPlaces(reg[1].pre.mappings, reg[1].button, reg[1].action)) = 2
    /\ Len(reg[1].commands) = 3

(***************************************************************************)
(* C5.  resolve returns exactly the entries whose button and action equal  *)
(* the arguments, all of them, in table order, and raises NoMapping if and *)
(* only if there is none.                                                  *)
(***************************************************************************)
ResolveIsSelection(mappings, button, action) ==
    /\ resolve(mappings, button, action).err
         = IF MatchingPlaces(mappings, button, action) = {}
           THEN ConfigurationError("no_mapping") ELSE NoError
    /\ resolve(mappings, button, action).matches
         = [n \in 1..Cardinality(MatchingPlaces(mappings, button, action)) |->
               mappings[NthPlace(MatchingPlaces(mappings, button, action), n)]]

C5_Resolve ==
    /\ phase = "run" =>
          \A b \in EventButtons \cup RegisterButtons, a \in ButtonAction :
              ResolveIsSelection(config.mappings, b, a)
    /\ h.pc \in {"dispatch", "done"} =>
          h.mappings
            = [n \in 1..Cardinality(MatchingPlaces(config.mappings, h.button,
                                                   NormalisedAction(h.action))) |->
                  config.mappings[NthPlace(MatchingPlaces(config.mappings, h.button,
                                               NormalisedAction(h.action)), n)]]

\* an event resolved to two entries that are not neighbours in the table
C5_Witness ==
    /\ h.pc = "dispatch"
    /\ Len(h.mappings) = 2
    /\ MatchingPlaces(config.mappings, h.button, NormalisedAction(h.action)) = {1, 3}

(***************************************************************************)
(* C6.  The virtual_input grammar.  As claimed: a command with the prefix  *)
(* virtual_input: is accepted only with exactly three colon-separated      *)
(* segments; with any other number it raises the MalformedCommand          *)
(* ConfigurationError and no GET is issued for it.                         *)
(***************************************************************************)
SegmentCount(c) == Cardinality(Colons(c)) + 1
Malformed == ConfigurationError("virtual_input_format")

C6_ExactlyThreeSegments ==
    (h.pc # "idle" /\ IsVirtualInput(h.last.command)) =>
        IF SegmentCount(h.last.command) = 3
        THEN h.last.err # Malformed
        ELSE h.last.err = Malformed /\ h.last.issued = 0

\* C6, what the code does instead: the command is split at its first two
\* colons, the value keeping any further colon; it is malformed exactly when
\* it has fewer than three segments.
C6_SplitAtFirstTwoColons ==
    (h.pc # "idle" /\ IsVirtualInput(h.last.command)) =>
        /\ h.last.err = Malformed <=> SegmentCount(h.last.command) < 3
        /\ h.last.err = Malformed =>
              /\ IsConfigurationError(h.last.err)
              /\ h.last.issued = 0
              /\ h.pc = "raised"
              /\ h.err = Malformed
        /\ SegmentCount(h.last.command) >= 3 =>
              IF ControlIdOf(h.last.command) = <<>> \/ ValueOf(h.last.command) = <<>>
              THEN h.last.issued = 0 /\ h.last.err.cls = "DriverError"
              ELSE /\ h.last.issued = 1
                   /\ calls[Len(calls)].url = UrlBelowBase(PathOf(h.last.command))

\* a command of four segments was accepted and its GET issued
C6_Witness ==
    /\ h.pc # "idle"
    /\ h.last.command = CmdVIFour
    /\ h.last.issued = 1
    /\ h.last.err = NoError

(***************************************************************************)
(* C7.  The gesture set is closed: a gesture text that, trimmed and        *)
(* lower-cased, is none of single_press, double_press, long_press raises   *)
(* ConfigurationError: in handle_event before any lookup and without any   *)
(* GET, and in load when the action field of a mapping is parsed.          *)
(***************************************************************************)
KnownGesture(text) ==
    \E g \in {"single_press", "double_press", "long_press"} :
        NormalisedAction(text) = <<g>>

C7_ClosedGestures ==
    /\ h.pc # "idle" =>
          IF KnownGesture(h.action)
          THEN h.err # ConfigurationError("unsupported_action")
          ELSE /\ h.pc = "raised"
               /\ h.err = ConfigurationError("unsupported_action")
               /\ IsConfigurationError(h.err)
               /\ calls = <<>>
               /\ h.mappings = <<>>
    /\ (phase # "load" /\ \E k \in 1..Len(raw.mappings) :
                              ~KnownGesture(raw.mappings[k].action))
          => phase = "failed" /\ IsConfigurationError(lerr)
    /\ phase = "run" =>
          \A k \in 1..Len(config.mappings) : KnownGesture(config.mappings[k].action)

\* an unknown gesture for a button that has entries
C7_Witness ==
    /\ h.pc = "raised"
    /\ h.err = ConfigurationError("unsupported_action")
    /\ h.action = <<"TRIPLE_PRESS">>
    /\ \E k \in 1..Len(config.mappings) : config.mappings[k].button = h.button

(***************************************************************************)
(* C8.  As claimed: starting from a config whose entries each have a       *)
(* non-empty button, a non-empty command sequence and only non-empty       *)
(* command strings, every entry of the table keeps the three after any     *)
(* register calls.                                                         *)
(***************************************************************************)
WellFormedEntries(mappings) ==
    \A k \in 1..Len(mappings) :
        /\ mappings[k].button # <<>>
        /\ mappings[k].commands # <<>>
        /\ \A n \in 1..Len(mappings[k].commands) : mappings[k].commands[n] # <<>>

C8_EntriesWellFormed ==
    (phase = "run" /\ WellFormedEntries(InitialConfig.mappings))
        => WellFormedEntries(config.mappings)

(***************************************************************************)
(* C10.  execute_command.  As claimed: it issues exactly one GET, with the *)
(* credentials and the timeout fixed at construction, and raises           *)
(* DriverError if and only if the status is >= 400 or the host is          *)
(* unreachable.                                                            *)
(***************************************************************************)
OneGet ==
    /\ Len(calls) = 1
    /\ calls[1].auth = <<InitialConfig.username, InitialConfig.password>>
    /\ calls[1].timeout = DefaultTimeout
    /\ calls[1].url = UrlBelowBase(x.command)
    /\ x.pc = "raised" <=> CallFailed(calls[1])
    /\ x.pc = "raised" => x.err.cls = "DriverError"

C10_AlwaysOneGet == x.pc # "idle" => OneGet

\* C10 as amended: so for every non-empty command; an empty command raises
\* DriverError without any GET.
C10_ExecuteCommand ==
    x.pc # "idle" =>
        IF x.command = <<>>
        THEN calls = <<>> /\ x.pc = "raised" /\ x.err = DriverError("empty_command")
        ELSE OneGet

\* status 399 is a success, after the config was replaced by register
C10_Witness ==
    /\ x.pc = "done"
    /\ Len(calls) = 1
    /\ calls[1].response.status_code = 399
    /\ config # InitialConfig

(***************************************************************************)
(* C9.  register_button is a read-modify-write of the held config that is  *)
(* not atomic: two calls that do not overlap leave both registrations in   *)
(* the table; two calls that interleave can leave a table that lacks the   *)
(* commands of one of them (C9_LostUpdate is reachable).                   *)
(***************************************************************************)
Targets(f, button, action) == f.button = button /\ f.action = action

\* the number of commands the two calls registered for the pair
Registered(button, action) ==
    (IF Targets(reg[1], button, action) THEN Len(reg[1].commands) ELSE 0)
    + (IF Targets(reg[2], button, action) THEN Len(reg[2].commands) ELSE 0)

IsContiguousIn(sub, seq) ==
    \E i \in 0..(Len(seq) - Len(sub)) : SubSeq(seq, i + 1, i + Len(sub)) = sub

\* the table holds what it held initially and the commands of both calls
BothRegistered ==
    /\ \A b \in ConcurrentButtons, a \in ButtonAction :
          Len(CommandsFor(config.mappings, b, a))
            = Len(CommandsFor(InitialConfig.mappings, b, a)) + Registered(b, a)
    /\ \A r \in Regs :
          IsContiguousIn(reg[r].commands,
                         CommandsFor(config.mappings, reg[r].button, reg[r].action))

\* the two register calls of the run have both returned normally
BothDone == nreg = 2 /\ reg[1].pc = "done" /\ reg[2].pc = "done"

C9_SerializedKeepsBoth ==
    (BothDone /\ ~reg[1].overlapped /\ ~reg[2].overlapped) => BothRegistered

\* the lost update: both calls completed, interleaved, and the table lacks
\* commands one of them registered
C9_LostUpdate ==
    /\ BothDone
    /\ reg[1].overlapped /\ reg[2].overlapped
    /\ ~BothRegistered

(***************************************************************************)
(* C11.  ping issues exactly one GET, for dev/fsget/current/ below the     *)
(* base URL, whatever the state of the driver; when that GET fails ping    *)
(* raises a new DriverError whose cause is the DriverError of the GET,     *)
(* unchanged; when it succeeds ping returns; the config held by the driver *)
(* and its client are what they were before the call.                      *)
(***************************************************************************)
C11_Ping ==
    p.pc # "idle" =>
        /\ Len(calls) = 1
        /\ calls[1].url = client.base_url \o PingCommand
        /\ calls[1].auth = <<InitialConfig.username, InitialConfig.password>>
        /\ CallFailed(calls[1]) =>
              /\ p.pc = "raised"
              /\ p.err = DriverError("ping")
              /\ p.cause = DriverError(IF calls[1].response.raised
                                       THEN "unreachable" ELSE "status")
        /\ ~CallFailed(calls[1]) =>
              p.pc = "done" /\ p.err = NoError /\ p.cause = NoError
        /\ config = p.pre
        /\ client.base_url = LoxoneClient(InitialConfig.miniserver_url,
               InitialConfig.username, InitialConfig.password).obj.base_url

\* a ping answered with status 500, on a driver whose table register changed
C11_Witness ==
    /\ p.pc = "raised"
    /\ p.cause = DriverError("status")
    /\ calls[1].response.status_code = 500
    /\ config.mappings # InitialConfig.mappings

(***************************************************************************)
(* C12.  As claimed: the URL of every GET has the scheme and the host of   *)
(* the base URL of the client, whatever the command: a command that is an  *)
(* absolute URL or starts with slashes does not take the request to        *)
(* another host.                                                           *)
(***************************************************************************)
SameOrigin(url, base) ==
    /\ urlsplit(url, <<>>).scheme = urlsplit(base, <<>>).scheme
    /\ urlsplit(url, <<>>).netloc = urlsplit(base, <<>>).netloc

C12_SameSchemeAndHost ==
    phase = "run" => \A k \in 1..Len(calls) : SameOrigin(calls[k].url, client.base_url)

\* C12, what the code guarantees instead: a command that has no scheme once
\* its leading slashes are removed is requested below the base URL.
C12_RelativeCommandStays ==
    (x.pc # "idle" /\ calls # <<>>
       /\ urlsplit(lstrip(x.command, {"/"}), <<>>).scheme = <<>>)
        => /\ SameOrigin(calls[1].url, client.base_url)
           /\ calls[1].url = client.base_url \o lstrip(x.command, {"/"})

\* a command starting with two slashes was requested below the base URL
C12_Witness ==
    x.pc = "done" /\ x.command = CmdSlashes /\ Len(calls) = 1

(***************************************************************************)
(* Vocabulary of the discovery properties.                                 *)
(***************************************************************************)
\* the response to the structure GET of the discovery call in progress and
\* the document json.loads made of its body
StructureResponse == calls[1].response
FetchedDocument == calls[1].response.body.json

\* discovery returned the functions of a document
Discovered == d.pc = "done" /\ Len(calls) = 1

\* the controls table of a document, by control id
ControlTable(doc) == _extract_controls(doc)

\* the places of the remotes that are objects with the name
NamedRemotes(doc, scope_name) ==
    {k \in 1..Len(doc.remotes.items) :
        /\ doc.remotes.items[k].val.isdict
        /\ doc.remotes.items[k].val.name = scope_name}

\* the control ids a remote lists
ControlIdsOf(remote) ==
    {remote.controls.items[k].key : k \in 1..Len(remote.controls.items)}

\* the functions a result is to hold: one per control of the table whose id
\* is in pass
FunctionsOf(doc, pass) ==
    {LoxoneFunction(ControlTable(doc)[k].key, ControlTable(doc)[k].val,
                    _map_entities(doc.rooms), _map_entities(doc.categories)) :
        k \in {n \in 1..Len(ControlTable(doc)) : ControlTable(doc)[n].key \in pass}}

HoldsExactly(result, doc, pass) ==
    /\ {result[k] : k \in 1..Len(result)} = FunctionsOf(doc, pass)
    /\ Len(result) = Cardinality(DictKeys(ControlTable(doc)) \cap pass)

(***************************************************************************)
(* C13.  As claimed: when the remotes table has an entry with the name of  *)
(* the scope, the result holds a function for a control exactly when the   *)
(* id of the control is among the control ids of that entry; when there is *)
(* no remotes table or no such entry, it holds one function per control.   *)
(***************************************************************************)
C13_AllowListOfNamedEntry ==
    Discovered =>
        HoldsExactly(d.result, FetchedDocument,
            IF NamedRemotes(FetchedDocument, config.remote_name) = {}
            THEN DictKeys(ControlTable(FetchedDocument))
            ELSE ControlIdsOf(FetchedDocument.remotes.items[
                     NthPlace(NamedRemotes(FetchedDocument, config.remote_name), 1)].val))

\* the places of the remotes with the name whose controls are a list or a
\* mapping
ListingRemotes(doc, scope_name) ==
    {k \in NamedRemotes(doc, scope_name) :
        doc.remotes.items[k].val.controls.kind \in {"list", "dict"}}

\* C13 as amended: the allow-list is that of the first entry that has the
\* name of the scope and a list or mapping of control ids; without such an
\* entry nothing is filtered.
C13_AllowList ==
    Discovered =>
        HoldsExactly(d.result, FetchedDocument,
            IF ListingRemotes(FetchedDocument, config.remote_name) = {}
            THEN DictKeys(ControlTable(FetchedDocument))
            ELSE ControlIdsOf(FetchedDocument.remotes.items[
                     NthPlace(ListingRemotes(FetchedDocument, config.remote_name), 1)].val))

\* remotes in list form, the third with the name and a mapping of ids: two
\* of the three controls pass
C13_Witness ==
    /\ Discovered
    /\ FetchedDocument = DocList
    /\ Len(d.result) = 2
    /\ Len(ControlTable(FetchedDocument)) = 3

(***************************************************************************)
(* C14.  The result of discovery is sorted ascending by (room name, or the *)
(* empty string without a room; lower-cased name), so the functions        *)
(* without a room come first; and the order of two functions with          *)
(* different keys is the same when the controls table is iterated in the   *)
(* opposite order.                                                         *)
(***************************************************************************)
KeyOf(fn) == <<IF fn.room = None THEN <<>> ELSE fn.room, lower(fn.name)>>

Precedes(seq, f, g) ==
    \E i \in 1..Len(seq), j \in 1..Len(seq) : i < j /\ seq[i] = f /\ seq[j] = g

\* the document with its controls table in the opposite order
ReverseControls(doc) ==
    [doc EXCEPT !.controls.items =
        [k \in 1..Len(doc.controls.items) |->
            doc.controls.items[Len(doc.controls.items) + 1 - k]]]

C14_Sorted ==
    Discovered =>
        /\ \A i \in 1..Len(d.result), j \in 1..Len(d.result) :
              i < j => ~KeyLess(KeyOf(d.result[j]), KeyOf(d.result[i]))
        /\ \A i \in 1..Len(d.result), j \in 1..Len(d.result) :
              (d.result[i].room = None /\ d.result[j].room # None) => i < j
        /\ FetchedDocument.controls.kind = "dict" =>
              \A i \in 1..Len(d.result), j \in 1..Len(d.result) :
                  KeyOf(d.result[i]) # KeyOf(d.result[j]) =>
                      (Precedes(d.result, d.result[i], d.result[j])
                         <=> Precedes(Functions(ReverseControls(FetchedDocument),
                                                config.remote_name),
                                      d.result[i], d.result[j]))

\* five functions from a table that is not in sorted order: the one without
\* a room first, then three that share a room, two of them with equal keys
C14_Witness ==
    /\ Discovered
    /\ FetchedDocument = DocSorted
    /\ Len(d.result) = 5
    /\ d.result[1].room = None
    /\ d.result[2].room = d.result[4].room
    /\ KeyOf(d.result[2]) = KeyOf(d.result[3])

(***************************************************************************)
(* C15.  For every control that passes the allow-list the result holds a   *)
(* function whose action identifier is the first non-empty value among     *)
(* uuidAction, uuid, uuidCmd of the control, in that order, and the id of  *)
(* the control in the table when there is none; and whose name is the name *)
(* of the control, or its id when it has no (non-empty) name.              *)
(***************************************************************************)
Present(v) == v # None /\ v # <<>>

ActionIdOf(id, control) ==
    IF Present(control.uuidAction) THEN control.uuidAction
    ELSE IF Present(control.uuid) THEN control.uuid
    ELSE IF Present(control.uuidCmd) THEN control.uuidCmd
    ELSE id

NameOf(id, control) == IF Present(control.name) THEN control.name ELSE id

\* the places in the controls table of the controls that pass the allow-list
PassingPlaces(doc, scope_name) ==
    {k \in 1..Len(ControlTable(doc)) :
        _controls_for_remote(doc, scope_name).filter
            => ControlTable(doc)[k].key \in _controls_for_remote(doc, scope_name).allowed}

C15_ActionIdAndName ==
    Discovered =>
        /\ {<<d.result[k].name, d.result[k].uuid>> : k \in 1..Len(d.result)}
             = {<<NameOf(ControlTable(FetchedDocument)[k].key,
                         ControlTable(FetchedDocument)[k].val),
                  ActionIdOf(ControlTable(FetchedDocument)[k].key,
                             ControlTable(FetchedDocument)[k].val)>> :
                   k \in PassingPlaces(FetchedDocument, config.remote_name)}
        /\ Len(d.result) = Cardinality(PassingPlaces(FetchedDocument, config.remote_name))

\* controls in list form: one named by its positional id, one whose action
\* identifier is its uuidAction although it has a uuid
C15_Witness ==
    /\ Discovered
    /\ FetchedDocument = DocList
    /\ \E k \in 1..Len(d.result) :
          d.result[k].name = <<"control_", "1">> /\ d.result[k].uuid = <<"control_", "1">>
    /\ \E k \in 1..Len(d.result) :
          d.result[k].name = <<"A">> /\ d.result[k].uuid = <<"a", "1">>

(***************************************************************************)
(* C16.  fetch_structure raises DriverError when the status is >= 400,     *)
(* when the body is empty or blank, and when the body is not JSON; in each *)
(* case discovery raises that error and has no result.  Otherwise          *)
(* fetch_structure returns the parsed document: discovery raises no        *)
(* DriverError and, for a JSON object, returns the functions of that       *)
(* document.                                                               *)
(***************************************************************************)
C16_FetchStructure ==
    (d.pc # "idle" /\ Len(calls) = 1) =>
        IF StructureResponse.raised
        THEN d.pc = "raised" /\ d.err = DriverError("unreachable") /\ d.result = <<>>
        ELSE IF StructureResponse.status_code >= 400
        THEN d.pc = "raised" /\ d.err = DriverError("status") /\ d.result = <<>>
        ELSE IF \A k \in 1..Len(StructureResponse.body.text) :
                    StructureResponse.body.text[k] = " "
        THEN d.pc = "raised" /\ d.err = DriverError("structure_empty") /\ d.result = <<>>
        ELSE IF FetchedDocument.kind = "invalid"
        THEN d.pc = "raised" /\ d.err = DriverError("structure_json") /\ d.result = <<>>
        ELSE /\ ~IsDriverError(d.err)
             /\ FetchedDocument.kind = "object" =>
                   /\ d.pc = "done"
                   /\ d.result = Functions(FetchedDocument, config.remote_name)

\* a body of blanks with status 200
C16_Witness ==
    /\ d.pc = "raised"
    /\ Len(calls) = 1
    /\ StructureResponse.status_code = 200
    /\ StructureResponse.body.text = <<" ", " ">>
    /\ d.err = DriverError("structure_empty")

RawCommands(item) ==
    IF item.commands.kind = "str" THEN <<item.commands.val>>
    ELSE IF item.commands.kind = "list" THEN item.commands.val
    ELSE <<>>

C17_CommandsTrimmed ==
    /\ phase = "run" =>
          /\ Len(InitialConfig.mappings) = Len(raw.mappings)
          /\ \A k \in 1..Len(raw.mappings) :
                InitialConfig.mappings[k].commands
                  = TrimmedNonEmpty(RawCommands(raw.mappings[k]))
    /\ (phase # "load" /\ \E k \in 1..Len(raw.mappings) :
                              TrimmedNonEmpty(RawCommands(raw.mappings[k])) = <<>>)
          => phase = "failed"

\* C17, what the code does instead: the commands of a list are trimmed and
\* the empty ones dropped; a single string is kept as it is.
C17_ListTrimmedStringKept ==
    phase = "run" =>
        /\ Len(InitialConfig.mappings) = Len(raw.mappings)
        /\ \A k \in 1..Len(raw.mappings) :
              InitialConfig.mappings[k].commands
                = IF raw.mappings[k].commands.kind = "str"
                  THEN <<raw.mappings[k].commands.val>>
                  ELSE TrimmedNonEmpty(raw.mappings[k].commands.val)

\* a document loaded whose mapping keeps a padded string as its command
C17_Witness ==
    /\ phase = "run"
    /\ \E k \in 1..Len(raw.mappings) :
          /\ raw.mappings[k].commands.kind = "str"
          /\ InitialConfig.mappings[k].commands[1] # strip(InitialConfig.mappings[k].commands[1])

(***************************************************************************)
(* C19.  As claimed: the commands of an event are not validated up front.  *)
(* When the command handle_event has come to is a malformed virtual_input  *)
(* command (one that does not have exactly three segments), handle_event   *)
(* raises ConfigurationError, the GETs issued are exactly those of the     *)
(* non-blank commands before it, in order, and none is issued for it or    *)
(* for a later command.                                                    *)
(***************************************************************************)
\* the commands of the event of frame h before the one at (h.i, h.j)
CommandsBefore ==
    CommandsFor(SubSeq(h.mappings, 1, h.i - 1), h.button, NormalisedAction(h.action))
    \o SubSeq(h.mappings[h.i].commands, 1, h.j - 1)

\* handle_event stopped at the command at (h.i, h.j) with a
\* ConfigurationError, having issued the GETs of the commands before it
StoppedBeforeCommand ==
    /\ h.pc = "raised"
    /\ IsConfigurationError(h.err)
    /\ h.last.issued = 0
    /\ h.last.command = strip(h.mappings[h.i].commands[h.j])
    /\ Len(calls) = Len(TrimmedNonEmpty(CommandsBefore))
    /\ \A k \in 1..Len(calls) :
          /\ calls[k].url = UrlBelowBase(PathOf(TrimmedNonEmpty(CommandsBefore)[k]))
          /\ ~CallFailed(calls[k])

C19_MalformedStopsDispatch ==
    (h.pc # "idle" /\ IsVirtualInput(h.last.command)
       /\ SegmentCount(h.last.command) # 3)
        => StoppedBeforeCommand

\* C19, what the code does instead: so for the virtual_input commands with
\* fewer than three segments; one with more is dispatched (C6).
C19_NoUpFrontValidation ==
    (h.pc # "idle" /\ IsVirtualInput(h.last.command)
       /\ SegmentCount(h.last.command) < 3)
        => StoppedBeforeCommand /\ h.err = Malformed

\* the second command of an event malformed, after the GET of the first and
\* with a third command left
C19_Witness ==
    /\ h.pc = "raised"
    /\ h.err = Malformed
    /\ Len(calls) = 1
    /\ h.j = 2
    /\ Len(h.mappings[h.i].commands) = 3

(***************************************************************************)
(* C20.  A register_button call that returns leaves everything but the     *)
(* targeted entry as it was: the url, username, password and remote name   *)
(* of the config, every other entry of the table (the same object at the   *)
(* same place), the place of an extended entry; and the client of the      *)
(* driver, with its base URL and credentials.                              *)
(***************************************************************************)
\* the place of the entry a register call targets in the table it found:
\* the first entry for the pair, or the place after the last entry
TargetPlace(pre, f) ==
    IF MatchingPlaces(pre, f.button, f.action) = {} THEN Len(pre) + 1
    ELSE NthPlace(MatchingPlaces(pre, f.button, f.action), 1)

C20_RegisterFrame ==
    reg[1].pc = "done" =>
        /\ config.miniserver_url = reg[1].pre.miniserver_url
        /\ config.username = reg[1].pre.username
        /\ config.password = reg[1].pre.password
        /\ config.remote_name = reg[1].pre.remote_name
        /\ Len(config.mappings)
             = IF MatchingPlaces(reg[1].pre.mappings, reg[1].button, reg[1].action) = {}
               THEN Len(reg[1].pre.mappings) + 1 ELSE Len(reg[1].pre.mappings)
        /\ \A k \in 1..Len(reg[1].pre.mappings) :
              k # TargetPlace(reg[1].pre.mappings, reg[1])
                 => config.mappings[k] = reg[1].pre.mappings[k]
        /\ config.mappings[TargetPlace(reg[1].pre.mappings, reg[1])].button = reg[1].button
        /\ config.mappings[TargetPlace(reg[1].pre.mappings, reg[1])].action = reg[1].action
        /\ client = LoxoneClient(InitialConfig.miniserver_url, InitialConfig.username,
                                 InitialConfig.password).obj

\* the first of three entries extended, in its second register call
C20_Witness ==
    /\ reg[1].pc = "done"
    /\ nreg = 2
    /\ Len(reg[1].pre.mappings) = 3
    /\ TargetPlace(reg[1].pre.mappings, reg[1]) = 1
    /\ Len(config.mappings[1].commands) > Len(reg[1].pre.mappings[1].commands)


(***************************************************************************)
(* C21: handle_event, ping and discovery leave the config alone.           *)
(***************************************************************************)
\* a step of a handle_event, ping or discovery call: its frame moves
ReadOnlyCallStep == h' # h \/ p' # p \/ d' # d

\* the assignment of lines 107-113 by some register_button call
RegisterSwapStep == \E r \in Regs : reg[r].pc = "built" /\ reg'[r].pc = "done"

\* C21: no step of a handle_event, ping or discover_miniserver_functions
\* call, whether the call then succeeds or raises, changes the config the
\* driver holds (the mapping table and every other field), also while a
\* register_button call of another thread is in progress; once the driver is
\* constructed the only step that changes the config is the assignment at
\* the end of register_button.
C21_ConfigFrame ==
    [][/\ ReadOnlyCallStep => config' = config
       /\ (phase = "run" /\ config' # config) => RegisterSwapStep]_vars

\* a handle_event call that raised after a GET, a register_button call
\* having replaced the config since the event resolved its mappings
C21_Witness ==
    /\ h.pc = "raised"
    /\ Len(calls) > 0
    /\ nreg > 0
    /\ config # h.pre
    /\ config # InitialConfig


(***************************************************************************)
(* C22: a register_button call that fails.                                 *)
(***************************************************************************)
\* the call of frame f is past lines 95-105
PastBuild(f) == f.pc \in {"built", "done", "raised"}

\* the call of frame f registers a pair no entry matches (resolve raised)
\* with an empty button or no commands
NewPairWithoutButtonOrCommands(f) ==
    ~f.found /\ (f.button = <<>> \/ f.commands = <<>>)

\* C22: a register_button call for a (button, gesture) pair that has no
\* entry, made with an empty button or an empty command sequence, raises
\* ConfigurationError; whenever a register_button call has raised, the
\* error is a ConfigurationError and the config the driver holds is the
\* one it held when the call was made; and from its call to its return a
\* register_button call issues no GET.
C22_FailedRegister ==
    \A r \in Regs :
        /\ (PastBuild(reg[r]) /\ NewPairWithoutButtonOrCommands(reg[r]))
               => reg[r].pc = "raised"
        /\ reg[r].pc = "raised"
               => /\ IsConfigurationError(reg[r].err)
                  /\ config = reg[r].pre
        /\ reg[r].pc # "idle" => calls = <<>>

\* a second register_button call, for a new pair and without commands, has
\* raised after a first one had replaced the config
C22_Witness ==
    /\ reg[1].pc = "raised"
    /\ ~reg[1].found
    /\ reg[1].button # <<>>
    /\ reg[1].commands = <<>>
    /\ nreg = 2
    /\ config # InitialConfig


(***************************************************************************)
(* C23: handle_event dispatches against the config it resolved with.       *)
(***************************************************************************)
\* the commands config cfg holds for the event of frame h, trimmed, those
\* empty after trimming dropped
SnapshotCommands(cfg) ==
    TrimmedNonEmpty(CommandsFor(cfg.mappings, h.button, NormalisedAction(h.action)))

\* the URLs the event of frame h requests when dispatched against cfg
SnapshotUrls(cfg) ==
    [k \in 1..Len(SnapshotCommands(cfg)) |-> UrlBelowBase(PathOf(SnapshotCommands(cfg)[k]))]

\* a register_button call replaced the config after the event resolved
RegisteredMeanwhile == h.pc # "idle" /\ config # h.pre

\* C23: the GETs of a handle_event call are those of the command sequence
\* of the config the driver held when the call resolved its mappings,
\* whatever register_button calls replace the config while the event waits
\* for the transport: a completed event issued exactly that sequence, a
\* running or failed one a prefix of it.  With a single register_button
\* call made, a completed event issued exactly the sequence of the config
\* before that call or exactly the sequence of the config after it.
C23_SingleSnapshot ==
    /\ h.pc = "done" => CallUrls = SnapshotUrls(h.pre)
    /\ h.pc \in {"dispatch", "raised"} =>
          /\ Len(calls) <= Len(SnapshotUrls(h.pre))
          /\ \A k \in 1..Len(calls) : calls[k].url = SnapshotUrls(h.pre)[k]
    /\ (h.pc = "done" /\ nreg <= 1) =>
          CallUrls \in {SnapshotUrls(InitialConfig), SnapshotUrls(config)}

\* an event completed with the commands it resolved, a register_button call
\* having extended the entry of its button while it was dispatching
C23_Witness ==
    /\ h.pc = "done"
    /\ RegisteredMeanwhile
    /\ Len(calls) > 0
    /\ Len(SnapshotUrls(config)) > Len(SnapshotUrls(h.pre))
    /\ CallUrls # SnapshotUrls(config)

====
